---- MODULE Spec2Model ----
(***************************************************************************)
(* Rule generation and evaluation for the Wires module                     *)
(* (ktane-utils/src/modules/wires.rs).                                     *)
(*                                                                         *)
(* Values.  A Color is a string.  A WireQuery is a record                  *)
(* [tag |-> "Wire", query_type, color]; an EdgeworkQuery is a record       *)
(* [tag |-> "Edgework", query, port] where port is "-" unless query is     *)
(* "PortPresent".  A Solution is [kind, n, color]: n is the wire position  *)
(* of Index(n) and is 0 for the coloured kinds, color is "-" for Index.    *)
(* A weight key is the same record with the colour blanked ("-").          *)
(* A weight table maps a key to the inverse d of its f64 weight (rounding   *)
(* aside): the weight is 1/d, multiplying it by 0.1 multiplies d by 10, and *)
(* a key absent from the table has the default weight 1.0.                 *)
(***************************************************************************)
EXTENDS Integers, Sequences, FiniteSets, TLC

\* ------------------------------------------------------------------ data

MIN_WIRES == 3
MAX_WIRES == 6

\* Color::iter(), in declaration order.
Color == <<"Black", "Blue", "Red", "White", "Yellow">>

\* WireQueryType::iter(), in declaration order.
WireQueryType ==
    <<"ExactlyOneOfColor", "ExactlyZeroOfColor", "LastWireIs", "MoreThanOneOfColor">>

\* PortType::iter(): the port catalogue of the bomb facts interface.
PortType == <<"Serial", "Parallel", "DVI", "PS2", "RJ45", "StereoRCA">>

Range(s) == {s[i] : i \in DOMAIN s}

NoColor == "-"
NoPort == "-"

WireQuery(query_type, color) ==
    [tag |-> "Wire", query_type |-> query_type, color |-> color]

EdgeworkQuery(query, port) ==
    [tag |-> "Edgework", query |-> query, port |-> port]

\* QueryWeightKey::Wire(query_type): the kind alone, whatever the colour.
WireKey(query_type) == WireQuery(query_type, NoColor)

Index(n) == [kind |-> "Index", n |-> n, color |-> NoColor]

ColorSolution(kind, color) == [kind |-> kind, n |-> 0, color |-> color]

\* impl From<Solution> for SolutionWeightKey
SolutionWeightKey(solution) == [solution EXCEPT !.color = NoColor]

Rule(queries, solution) == [queries |-> queries, solution |-> solution]

\* ------------------------------------------------------------ validator

\* The same-colour kind pairs Rule::is_valid walks through.
InvalidPairs ==
    << <<"ExactlyOneOfColor", "ExactlyZeroOfColor">>,
       <<"ExactlyOneOfColor", "MoreThanOneOfColor">>,
       <<"MoreThanOneOfColor", "ExactlyZeroOfColor">>,
       <<"LastWireIs", "ExactlyZeroOfColor">> >>

\* Rule::is_valid with each pair compared in its listed order alone.
is_valid_one_order(rule) ==
    IF Len(rule.queries) = 1 THEN TRUE
    ELSE LET first == rule.queries[1]
             second == rule.queries[2]
         IN  IF first.tag = "Wire" /\ second.tag = "Wire"
             THEN IF first.color = second.color
                  THEN ~ \E i \in DOMAIN InvalidPairs :
                           /\ first.query_type = InvalidPairs[i][1]
                           /\ second.query_type = InvalidPairs[i][2]
                  ELSE ~ (first.query_type = "LastWireIs"
                          /\ second.query_type = "LastWireIs")
             ELSE TRUE

\* Rule::is_valid with the LastWireIs test made for either colour relation.
is_valid_any_last(rule) ==
    IF Len(rule.queries) = 1 THEN TRUE
    ELSE LET first == rule.queries[1]
             second == rule.queries[2]
         IN  IF first.tag = "Wire" /\ second.tag = "Wire"
             THEN /\ ~ (first.query_type = "LastWireIs"
                        /\ second.query_type = "LastWireIs")
                  /\ \/ first.color # second.color
                     \/ ~ \E i \in DOMAIN InvalidPairs :
                           \/ /\ first.query_type = InvalidPairs[i][1]
                              /\ second.query_type = InvalidPairs[i][2]
                           \/ /\ first.query_type = InvalidPairs[i][2]
                              /\ second.query_type = InvalidPairs[i][1]
             ELSE TRUE

\* Rule::is_valid
is_valid(rule) ==
    IF Len(rule.queries) = 1 THEN TRUE
    ELSE LET first == rule.queries[1]
             second == rule.queries[2]
         IN  IF first.tag = "Wire" /\ second.tag = "Wire"
             THEN IF first.color = second.color
                  THEN ~ \E i \in DOMAIN InvalidPairs :
                           \/ /\ first.query_type = InvalidPairs[i][1]
                              /\ second.query_type = InvalidPairs[i][2]
                           \/ /\ first.query_type = InvalidPairs[i][2]
                              /\ second.query_type = InvalidPairs[i][1]
                  ELSE ~ (first.query_type = "LastWireIs"
                          /\ second.query_type = "LastWireIs")
             ELSE TRUE

\* ------------------------------------------------- the random generator

(***************************************************************************)
(* RuleseedRandom is consumed through four operations.  Its arithmetic is  *)
(* not part of the engine, so every operation may return any value of its  *)
(* range.  The generator state kept here is `random`, the number of        *)
(* values drawn so far that were not the lowest of their range (a double   *)
(* at or above the 0.6 threshold, an index other than 0).  MaxHighDraws    *)
(* bounds that number over one run of RuleSet::new.                        *)
(* Each operation yields the set of its possible outcomes                  *)
(* [value, rnd], rnd being the generator state after the call.            *)
(***************************************************************************)
MaxHighDraws == 3

\* next_double() < 0.6, as the two callers test it.
next_double_below_threshold(rnd) ==
    {[value |-> TRUE, rnd |-> rnd]}
    \cup (IF rnd < MaxHighDraws THEN {[value |-> FALSE, rnd |-> rnd + 1]} ELSE {})

\* next_below(n): an integer in [0, n).
next_below(n, rnd) ==
    {[value |-> i, rnd |-> IF i = 0 THEN rnd ELSE rnd + 1] :
        i \in {j \in 0..(n - 1) : j = 0 \/ rnd < MaxHighDraws}}

\* choice(items): one element of items, or none if items is empty.
choice(items, rnd) ==
    IF items = <<>>
    THEN {[some |-> FALSE, value |-> NoColor, rnd |-> rnd]}
    ELSE {[some |-> TRUE, value |-> items[d.value + 1], rnd |-> d.rnd] :
             d \in next_below(Len(items), rnd)}

\* The f64 weight 1/d of a key is positive.
Selectable(items, weights) == {i \in DOMAIN items : TRUE}

\* weighted_select(items, weights): an element of items, each with
\* probability proportional to its weight.
weighted_select(items, weights, rnd) ==
    {[value |-> items[i], rnd |-> IF i = 1 THEN rnd ELSE rnd + 1] :
        i \in {j \in Selectable(items, weights) : j = 1 \/ rnd < MaxHighDraws}}

\* ---------------------------------------------------------- generation

\* *= 0.1 in choose_query and *= 0.05 in generate_rule, on the inverse.
QUERY_DECAY == 10
SOLUTION_DECAY == 20

\* The decay as an assignment: the weight becomes the factor.
Decay_assign(weights, key, factor) ==
    IF key \in DOMAIN weights
    THEN [weights EXCEPT ![key] = factor]
    ELSE weights @@ (key :> factor)

\* *weights.entry(key).or_insert(1.0) *= factor
Decay(weights, key, factor) ==
    IF key \in DOMAIN weights
    THEN [weights EXCEPT ![key] = @ * factor]
    ELSE weights @@ (key :> factor)

\* HashMap::new()
NoWeights == [k \in {} |-> 0]

\* A wires_involved by which every kind involves one wire.
wires_involved_one_each(query_type) == 1

\* WireQueryType::wires_involved
wires_involved(query_type) ==
    CASE query_type = "MoreThanOneOfColor" -> 2
      [] query_type = "ExactlyZeroOfColor" -> 0
      [] OTHER -> 1

\* Query::wires_involved
Query_wires_involved(query) ==
    IF query.tag = "Edgework" THEN 0 ELSE wires_involved(query.query_type)

\* An additional_solutions by which every wire query contributes the three
\* coloured solution kinds.
additional_solutions_any_kind(query) ==
    IF query.tag = "Wire"
    THEN <<ColorSolution("TheOneOfColor", NoColor),
           ColorSolution("FirstOfColor", NoColor),
           ColorSolution("LastOfColor", NoColor)>>
    ELSE <<>>

\* Query::additional_solutions
additional_solutions(query) ==
    IF query.tag = "Wire"
    THEN CASE query.query_type = "ExactlyOneOfColor" ->
                  <<ColorSolution("TheOneOfColor", NoColor)>>
           [] query.query_type = "MoreThanOneOfColor" ->
                  <<ColorSolution("FirstOfColor", NoColor),
                    ColorSolution("LastOfColor", NoColor)>>
           [] OTHER -> <<>>
    ELSE <<>>

\* Query::solution_colors yielding the colour of every wire query.
solution_colors_any_kind(query) ==
    IF query.tag = "Wire" THEN <<query.color>> ELSE <<>>

\* Query::solution_colors yielding the colour of an ExactlyOneOfColor query
\* only.
solution_colors_exactly_one(query) ==
    IF query.tag = "Wire" /\ query.query_type = "ExactlyOneOfColor"
    THEN <<query.color>>
    ELSE <<>>

\* Query::solution_colors: an Option<Color>, as a list of at most one colour.
solution_colors(query) ==
    IF query.tag = "Wire"
       /\ query.query_type \in {"ExactlyOneOfColor", "MoreThanOneOfColor", "LastWireIs"}
    THEN <<query.color>>
    ELSE <<>>

RECURSIVE flat_map_additional_solutions(_)
flat_map_additional_solutions(queries) ==
    IF queries = <<>> THEN <<>>
    ELSE additional_solutions(Head(queries))
         \o flat_map_additional_solutions(Tail(queries))

RECURSIVE flat_map_solution_colors(_)
flat_map_solution_colors(queries) ==
    IF queries = <<>> THEN <<>>
    ELSE solution_colors(Head(queries))
         \o flat_map_solution_colors(Tail(queries))

\* possible_solutions with the last base index one too far.
possible_solutions_off_by_one(queries, wire_count) ==
    <<Index(0), Index(1), Index(wire_count)>>
    \o [i \in 1..(wire_count - 3) |-> Index(i + 1)]
    \o flat_map_additional_solutions(queries)

\* RuleSet::possible_solutions
possible_solutions(queries, wire_count) ==
    <<Index(0), Index(1), Index(wire_count - 1)>>
    \o [i \in 1..(wire_count - 3) |-> Index(i + 1)]
    \o flat_map_additional_solutions(queries)

\* SmallVec::remove(index), index counted from 0.
Remove(s, index) == [i \in 1..(Len(s) - 1) |-> IF i <= index THEN s[i] ELSE s[i + 1]]

\* A colorize that leaves the colour it has drawn in the pool.
QueryWeightKey_colorize_with_replacement(key, colors_available, rnd) ==
    IF key.tag = "Edgework"
    THEN {[query |-> key, colors_available |-> colors_available, rnd |-> rnd]}
    ELSE {[query |-> WireQuery(key.query_type, colors_available[d.value + 1]),
           colors_available |-> colors_available,
           rnd |-> d.rnd] :
             d \in next_below(Len(colors_available), rnd)}

\* QueryWeightKey::colorize and WireQueryType::colorize: outcomes
\* [query, colors_available, rnd].
QueryWeightKey_colorize(key, colors_available, rnd) ==
    IF key.tag = "Edgework"
    THEN {[query |-> key, colors_available |-> colors_available, rnd |-> rnd]}
    ELSE {[query |-> WireQuery(key.query_type, colors_available[d.value + 1]),
           colors_available |-> Remove(colors_available, d.value),
           rnd |-> d.rnd] :
             d \in next_below(Len(colors_available), rnd)}

\* RuleSet::choose_query: outcomes [query, query_weights, colors_available, rnd].
choose_query(available_queries, query_weights, colors_available, rnd) ==
    UNION {
        {[query |-> c.query,
          query_weights |-> Decay(query_weights, s.value, QUERY_DECAY),
          colors_available |-> c.colors_available,
          rnd |-> c.rnd] :
            c \in QueryWeightKey_colorize(s.value, colors_available, s.rnd)} :
        s \in weighted_select(available_queries, query_weights, rnd)}

\* A colorize that asks the generator for a colour only where the solution
\* takes one.
SolutionWeightKey_colorize_skip_index(key, colors_available, rnd) ==
    IF key.kind = "Index"
    THEN {[panic |-> FALSE, solution |-> key, rnd |-> rnd]}
    ELSE {[panic |-> ~c.some,
           solution |-> ColorSolution(key.kind, c.value),
           rnd |-> c.rnd] :
             c \in choice(colors_available, rnd)}

\* SolutionWeightKey::colorize: outcomes [panic, solution, rnd]; panic is
\* the unwrap() of an absent colour.
SolutionWeightKey_colorize(key, colors_available, rnd) ==
    {[panic |-> key.kind # "Index" /\ ~c.some,
      solution |-> IF key.kind = "Index" THEN key ELSE ColorSolution(key.kind, c.value),
      rnd |-> c.rnd] :
        c \in choice(colors_available, rnd)}

\* The main query's candidates in generate_rule.
main_available_queries == [i \in DOMAIN WireQueryType |-> WireKey(WireQueryType[i])]

\* Auxiliary candidates whose cost may use up every wire the main query
\* has left.
auxiliary_available_queries_up_to(main_query, wire_count, vanilla_seed) ==
    LET max_wires_involved == wire_count - Query_wires_involved(main_query)
        Fits(query_type) == wires_involved(query_type) <= max_wires_involved
    IN  <<EdgeworkQuery("SerialStartsWithLetter", NoPort),
          EdgeworkQuery("SerialOdd", NoPort)>>
        \o [i \in DOMAIN SelectSeq(WireQueryType, Fits) |->
               WireKey(SelectSeq(WireQueryType, Fits)[i])]
        \o (IF vanilla_seed THEN <<>>
            ELSE [i \in DOMAIN PortType |-> EdgeworkQuery("PortPresent", PortType[i])]
                 \o <<EdgeworkQuery("HasEmptyPortPlate", NoPort)>>)

\* The auxiliary query's candidates in generate_rule.
auxiliary_available_queries(main_query, wire_count, vanilla_seed) ==
    LET max_wires_involved == wire_count - Query_wires_involved(main_query)
        Fits(query_type) == wires_involved(query_type) < max_wires_involved
    IN  <<EdgeworkQuery("SerialStartsWithLetter", NoPort),
          EdgeworkQuery("SerialOdd", NoPort)>>
        \o [i \in DOMAIN SelectSeq(WireQueryType, Fits) |->
               WireKey(SelectSeq(WireQueryType, Fits)[i])]
        \o (IF vanilla_seed THEN <<>>
            ELSE [i \in DOMAIN PortType |-> EdgeworkQuery("PortPresent", PortType[i])]
                 \o <<EdgeworkQuery("HasEmptyPortPlate", NoPort)>>)

\* The tail of generate_rule, from possible_solutions on.
choose_solution(queries, query_weights, solution_weights, wire_count, rnd) ==
    UNION {
        {[panic |-> c.panic,
          rule |-> Rule(queries, c.solution),
          query_weights |-> query_weights,
          solution_weights |-> Decay(solution_weights, s.value, SOLUTION_DECAY),
          rnd |-> c.rnd] :
            c \in SolutionWeightKey_colorize(
                      s.value, flat_map_solution_colors(queries), s.rnd)} :
        s \in weighted_select(possible_solutions(queries, wire_count),
                              solution_weights, rnd)}

\* RuleSet::roll_rule_count: outcomes [value, rnd].
roll_rule_count(rnd) ==
    {[value |-> IF d.value THEN 3 ELSE 4, rnd |-> d.rnd] :
        d \in next_double_below_threshold(rnd)}

\* RuleSet::roll_compound: next_double() >= 0.6; outcomes [value, rnd].
roll_compound(rnd) ==
    {[value |-> ~d.value, rnd |-> d.rnd] : d \in next_double_below_threshold(rnd)}

\* RuleSet::generate_rule: outcomes
\* [panic, rule, query_weights, solution_weights, rnd].
generate_rule(rnd, query_weights, solution_weights, wire_count, vanilla_seed) ==
    UNION {
        UNION {
            IF ~compound.value
            THEN choose_solution(<<main.query>>, main.query_weights,
                                 solution_weights, wire_count, main.rnd)
            ELSE UNION {
                     choose_solution(<<main.query, aux.query>>, aux.query_weights,
                                     solution_weights, wire_count, aux.rnd) :
                     aux \in choose_query(
                                 auxiliary_available_queries(
                                     main.query, wire_count, vanilla_seed),
                                 main.query_weights, main.colors_available,
                                 main.rnd)} :
            main \in choose_query(main_available_queries, query_weights,
                                  Color, compound.rnd)} :
        compound \in roll_compound(rnd)}

\* usize::wrapping_neg.  The width is the target's usize's in the program;
\* it is reduced here to what a model integer holds, which keeps the order
\* of the keys of 1 and 2.
USIZE_BITS == 16

wrapping_neg(n) == (2 ^ USIZE_BITS - n) % (2 ^ USIZE_BITS)

\* The sort key without wrapping_neg.
sort_key_plain(rule) == Len(rule.queries)

\* The key of rules.sort_by_key in RuleSet::new.
sort_key(rule) == wrapping_neg(Len(rule.queries))

\* slice::sort_by_key is a stable sort: an element comes behind the elements
\* of smaller key and behind those of equal key that stood before it.
sort_by_key(s) ==
    LET Before(j) == {k \in DOMAIN s :
                         \/ sort_key(s[k]) < sort_key(s[j])
                         \/ sort_key(s[k]) = sort_key(s[j]) /\ k < j}
    IN  [i \in DOMAIN s |-> s[CHOOSE j \in DOMAIN s : Cardinality(Before(j)) = i - 1]]

\* The reserved seed, crate::random::VANILLA_SEED.
VANILLA_SEED == 1

\* The seeds a run is started with: one generated and the reserved one.
Seeds == {0, VANILLA_SEED}

\* otherwise_solutions with nothing excluded.
otherwise_solutions_all(sorted_rules, wire_count, seed) ==
    possible_solutions(<<>>, wire_count)

\* The candidates of the otherwise solution in RuleSet::new: the base
\* solutions, less the key of the solution of rules.last() after the sort.
otherwise_solutions(sorted_rules, wire_count, seed) ==
    LET solutions == possible_solutions(<<>>, wire_count)
        forbidden == SolutionWeightKey(sorted_rules[Len(sorted_rules)].solution)
        Kept(solution) == solution # forbidden
    IN  IF seed # VANILLA_SEED THEN SelectSeq(solutions, Kept) ELSE solutions

\* random.choice(&solutions).unwrap().colorize(&mut random, &[]): outcomes
\* [panic, solution, rnd].
choose_otherwise(solutions, rnd) ==
    UNION {
        IF ~c.some
        THEN {[panic |-> TRUE, solution |-> Index(0), rnd |-> c.rnd]}
        ELSE SolutionWeightKey_colorize(c.value, <<>>, c.rnd) :
        c \in choice(solutions, rnd)}

\* The loop condition with <= for <.
loop_continues_le(rules_, rule_count_) == Len(rules_) <= rule_count_

\* The condition of the while loop of RuleSet::new.
loop_continues(rules_, rule_count_) == Len(rules_) < rule_count_

\* The push without the validity test.
push_always(rules_, rule) == Append(rules_, rule)

\* The push with the validity test inverted.
push_if_invalid(rules_, rule) == IF is_valid(rule) THEN rules_ ELSE Append(rules_, rule)

\* if rule.is_valid() { rules.push(rule) }
push_if_valid(rules_, rule) == IF is_valid(rule) THEN Append(rules_, rule) ELSE rules_

\* ---------------------------------------------------------- evaluation

\* A WireQuery::evaluate that unwraps wires.last() before it looks at the
\* kind.
WireQuery_evaluate_panics_any_kind(query, wires) == wires = <<>>

\* WireQuery::evaluate panics where wires.last() is unwrapped and absent.
WireQuery_evaluate_panics(query, wires) ==
    query.query_type = "LastWireIs" /\ wires = <<>>

\* WireQuery::evaluate with "more than one" read as "at least one".
WireQuery_evaluate_at_least_one(query, wires) ==
    LET IsColor(wire) == wire = query.color
        count_wires == Len(SelectSeq(wires, IsColor))
    IN  CASE query.query_type = "LastWireIs" -> wires[Len(wires)] = query.color
          [] query.query_type = "ExactlyOneOfColor" -> count_wires = 1
          [] query.query_type = "MoreThanOneOfColor" -> count_wires >= 1
          [] query.query_type = "ExactlyZeroOfColor" -> count_wires = 0

\* WireQuery::evaluate, where it does not panic.
WireQuery_evaluate(query, wires) ==
    LET IsColor(wire) == wire = query.color
        count_wires == Len(SelectSeq(wires, IsColor))
    IN  CASE query.query_type = "LastWireIs" -> wires[Len(wires)] = query.color
          [] query.query_type = "ExactlyOneOfColor" -> count_wires = 1
          [] query.query_type = "MoreThanOneOfColor" -> count_wires > 1
          [] query.query_type = "ExactlyZeroOfColor" -> count_wires = 0

\* The bomb facts: a serial number, as its characters, and the port plates,
\* each the set of its ports.
Edgework(serial_number, port_plates) ==
    [serial_number |-> serial_number, port_plates |-> port_plates]

\* u8::is_ascii_uppercase
is_ascii_uppercase(c) ==
    c \in {"A", "B", "C", "D", "E", "F", "G", "H", "I", "J", "K", "L", "M",
           "N", "O", "P", "Q", "R", "S", "T", "U", "V", "W", "X", "Y", "Z"}

Digits == <<"0", "1", "2", "3", "4", "5", "6", "7", "8", "9">>

\* SerialNumber::last_digit: the value of the trailing digit.
last_digit(serial_number) ==
    (CHOOSE i \in DOMAIN Digits : Digits[i] = serial_number[Len(serial_number)]) - 1

\* EdgeworkQuery::evaluate
EdgeworkQuery_evaluate(query, edgework) ==
    CASE query.query = "SerialStartsWithLetter" ->
             is_ascii_uppercase(edgework.serial_number[1])
      [] query.query = "SerialOdd" -> last_digit(edgework.serial_number) % 2 = 1
      [] query.query = "HasEmptyPortPlate" ->
             \E i \in DOMAIN edgework.port_plates : edgework.port_plates[i] = {}
      [] query.query = "PortPresent" ->
             \E i \in DOMAIN edgework.port_plates : query.port \in edgework.port_plates[i]

\* Query::evaluate
Query_evaluate(query, edgework, wires) ==
    IF query.tag = "Edgework"
    THEN EdgeworkQuery_evaluate(query, edgework)
    ELSE WireQuery_evaluate(query, wires)

\* Rule::evaluate
Rule_evaluate(rule, edgework, wires) ==
    \A i \in DOMAIN rule.queries : Query_evaluate(rule.queries[i], edgework, wires)

\* RuleList::evaluate taking the last matching rule.
RuleList_evaluate_last_match(rule_list, edgework, wires) ==
    LET Matches(rule) == Rule_evaluate(rule, edgework, wires)
        matching == SelectSeq(rule_list.rules, Matches)
    IN  IF matching = <<>> THEN rule_list.otherwise
        ELSE matching[Len(matching)].solution

\* RuleList::evaluate: filter, map, next, unwrap_or.
RuleList_evaluate(rule_list, edgework, wires) ==
    LET Matches(rule) == Rule_evaluate(rule, edgework, wires)
        matching == SelectSeq(rule_list.rules, Matches)
    IN  IF matching = <<>> THEN rule_list.otherwise
        ELSE Head(matching).solution

\* An Option: Some(value), or None with a placeholder of the same shape.
Some(value) == [some |-> TRUE, value |-> value]
None(placeholder) == [some |-> FALSE, value |-> placeholder]

\* RuleSet::get with the wire count clamped into MIN_WIRES..MAX_WIRES.
RuleSet_get_clamped(rule_set, wire_count) ==
    LET clamped == IF wire_count < MIN_WIRES THEN MIN_WIRES
                   ELSE IF wire_count > MAX_WIRES THEN MAX_WIRES
                   ELSE wire_count
    IN  Some(rule_set[clamped - MIN_WIRES])

\* RuleSet::get.  A RuleSet is the array [RuleList; 4], here a function on
\* 0..3.
RuleSet_get(rule_set, wire_count) ==
    IF wire_count \in MIN_WIRES..MAX_WIRES
    THEN Some(rule_set[wire_count - MIN_WIRES])
    ELSE None([rules |-> <<>>, otherwise |-> Index(0)])

\* impl Index<usize> for RuleSet: expect() panics on None.
RuleSet_index_panics(rule_set, wire_count) == ~RuleSet_get(rule_set, wire_count).some

RuleSet_index(rule_set, wire_count) == RuleSet_get(rule_set, wire_count).value

\* RuleSet::evaluate: self[wires.len()].evaluate(edgework, wires)
RuleSet_evaluate_panics(rule_set, edgework, wires) ==
    RuleSet_index_panics(rule_set, Len(wires))

RuleSet_evaluate(rule_set, edgework, wires) ==
    RuleList_evaluate(RuleSet_index(rule_set, Len(wires)), edgework, wires)

\* Iterator::position, counted from 0: the first wire of the colour.
position(wires, color) ==
    LET found == {i \in DOMAIN wires : wires[i] = color}
    IN  IF found = {} THEN None(0)
        ELSE Some((CHOOSE i \in found : \A j \in found : i <= j) - 1)

\* Iterator::rposition, counted from 0: the last wire of the colour.
rposition(wires, color) ==
    LET found == {i \in DOMAIN wires : wires[i] = color}
    IN  IF found = {} THEN None(0)
        ELSE Some((CHOOSE i \in found : \A j \in found : j <= i) - 1)

\* x as u8
as_u8(x) == x % 256

\* Solution::as_index falling back to the first wire when none has the colour.
as_index_default_zero(solution, wires) ==
    LET at == IF solution.kind = "LastOfColor"
              THEN rposition(wires, solution.color)
              ELSE position(wires, solution.color)
    IN  IF solution.kind = "Index" THEN Some(solution.n)
        ELSE Some(as_u8(at.value))

\* Solution::as_index: an Option<u8>.
as_index(solution, wires) ==
    CASE solution.kind = "Index" -> Some(solution.n)
      [] solution.kind \in {"FirstOfColor", "TheOneOfColor"} ->
             LET at == position(wires, solution.color)
             IN  IF at.some THEN Some(as_u8(at.value)) ELSE None(0)
      [] solution.kind = "LastOfColor" ->
             LET at == rposition(wires, solution.color)
             IN  IF at.some THEN Some(as_u8(at.value)) ELSE None(0)

\* ------------------------------------------------------- RuleSet::new

VARIABLES
    seed,              \* the argument of RuleSet::new
    random,            \* the generator: see MaxHighDraws
    index,             \* array_init's index of the list being generated
    rule_count,        \* the rolled rule count of that list
    rules,             \* its rules so far; sorted once the list is emitted
    generated,         \* the accepted rules of that list in generation order
    candidate,         \* the latest rule generate_rule returned, if any
    query_weights,     \* HashMap<QueryWeightKey, f64>, as inverses
    solution_weights,  \* HashMap<SolutionWeightKey, f64>, as inverses
    ruleset,           \* the array under construction: index :> RuleList, of
                       \* which the slot filled last is kept
    pc,                \* where RuleSet::new stands
    call,              \* a call of a pure function: its arguments
    ret,               \* and its result
    bombs,             \* handler.bombs: the channels with a registered bomb
    bomb_data,         \* each bomb's timer and drop_callback, by its channel
    presence_updates,  \* the calls of handler.schedule_presence_update so far
    threads            \* the callers of end_bomb and where each stands

handler_vars == <<bombs, bomb_data, presence_updates, threads>>

vars == <<seed, random, index, rule_count, rules, generated, candidate,
          query_weights, solution_weights, ruleset, pc, call, ret, handler_vars>>

NoCall == [op |-> "none"]

wire_count == index + MIN_WIRES

RuleList(rules_, otherwise) == [rules |-> rules_, otherwise |-> otherwise]

\* No slot of the array is filled yet.
NoRuleSet == [i \in {} |-> RuleList(<<>>, Index(0))]

\* RuleSet::new has not run.
NotStarted ==
    /\ random = 0
    /\ index = 0
    /\ rule_count = 0
    /\ rules = <<>>
    /\ generated = <<>>
    /\ candidate = <<>>
    /\ query_weights = NoWeights
    /\ solution_weights = NoWeights
    /\ ruleset = NoRuleSet

\* No Handler is running.
NoHandler ==
    /\ bombs = {}
    /\ bomb_data = <<>>
    /\ presence_updates = 0
    /\ threads = <<>>

Init ==
    /\ seed \in Seeds
    /\ NotStarted
    /\ NoHandler
    /\ pc = "new"
    /\ call = NoCall
    /\ ret = NoCall

\* seed == VANILLA_SEED: vanilla_ruleset() is unimplemented!().
Vanilla ==
    /\ pc = "new"
    /\ seed = VANILLA_SEED
    /\ pc' = "unimplemented"
    /\ UNCHANGED <<seed, random, index, rule_count, rules, generated, candidate,
                   query_weights, solution_weights, ruleset, call, ret, handler_vars>>

\* The head of the closure with both weight tables created once, outside it.
StartList_shared_weights ==
    /\ pc = "new"
    /\ seed # VANILLA_SEED
    /\ \E roll \in roll_rule_count(random) :
          /\ rule_count' = roll.value
          /\ random' = roll.rnd
    /\ rules' = <<>>
    /\ generated' = <<>>
    /\ candidate' = <<>>
    /\ pc' = "loop"
    /\ UNCHANGED <<seed, index, ruleset, call, ret, query_weights, solution_weights,
                   handler_vars>>

\* The head of array_init's closure: the rule count is rolled, the rule list
\* and both weight tables are created empty.
StartList ==
    /\ pc = "new"
    /\ seed # VANILLA_SEED
    /\ \E roll \in roll_rule_count(random) :
          /\ rule_count' = roll.value
          /\ random' = roll.rnd
    /\ rules' = <<>>
    /\ generated' = <<>>
    /\ candidate' = <<>>
    /\ query_weights' = NoWeights
    /\ solution_weights' = NoWeights
    /\ pc' = "loop"
    /\ UNCHANGED <<seed, index, ruleset, call, ret, handler_vars>>

\* One turn of the while loop: a candidate is generated and kept if valid.
GenerateRule ==
    /\ pc = "loop"
    /\ loop_continues(rules, rule_count)
    /\ \E out \in generate_rule(random, query_weights, solution_weights,
                                wire_count, seed = VANILLA_SEED) :
          /\ random' = out.rnd
          /\ query_weights' = out.query_weights
          /\ solution_weights' = out.solution_weights
          /\ candidate' = <<out.rule>>
          /\ IF out.panic
             THEN /\ pc' = "panic"
                  /\ UNCHANGED <<rules, generated>>
             ELSE /\ pc' = "loop"
                  /\ rules' = push_if_valid(rules, out.rule)
                  /\ generated' = push_if_valid(generated, out.rule)
    /\ UNCHANGED <<seed, index, rule_count, ruleset, call, ret, handler_vars>>

\* The loop is left: the rules are sorted, the otherwise solution is chosen
\* and the RuleList is emitted; array_init goes on to the next index.
EmitList ==
    /\ pc = "loop"
    /\ ~loop_continues(rules, rule_count)
    /\ LET sorted == sort_by_key(rules)
       IN  /\ rules' = sorted
           /\ \E out \in choose_otherwise(
                             otherwise_solutions(sorted, wire_count, seed), random) :
                 /\ random' = out.rnd
                 /\ IF out.panic
                    THEN /\ pc' = "panic"
                         /\ UNCHANGED <<ruleset, index>>
                    ELSE /\ ruleset' = (index :> RuleList(sorted, out.solution))
                         /\ IF wire_count < MAX_WIRES
                            THEN /\ index' = index + 1
                                 /\ pc' = "new"
                            ELSE /\ index' = index
                                 /\ pc' = "done"
    /\ UNCHANGED <<seed, rule_count, generated, candidate, query_weights,
                   solution_weights, call, ret, handler_vars>>

Next == Vanilla \/ StartList \/ GenerateRule \/ EmitList

Spec == Init /\ [][Next]_vars

\* A turn of the loop whose candidate passes is_valid and is pushed.
AcceptRule == GenerateRule /\ Len(rules') = Len(rules) + 1

\* The turn of the loop in which every draw returns the lowest value of its
\* range.
LowestDraws == pc = "loop" /\ random' = random /\ GenerateRule

\* The closure is entered with no draw so far other than the lowest: the
\* loop of this list is then followed through every draw MaxHighDraws allows.
StartListFresh == StartList /\ random = 0

FairNext == Vanilla \/ StartListFresh \/ GenerateRule \/ EmitList

\* RuleSet::new under a fair generator: a sequence of draws the generator
\* can return again and again is returned at some time, and the loop once
\* left is followed by the rest of the closure.
FairSpec ==
    /\ Init
    /\ [][FairNext]_vars
    /\ SF_vars(LowestDraws)
    /\ WF_vars(EmitList)

\* ------------------------------------------- calls of the pure functions

new_vars == <<seed, random, index, rule_count, rules, generated, candidate,
              query_weights, solution_weights, ruleset>>

Colors == Range(Color)

WireQueries == {WireQuery(t, c) : t \in Range(WireQueryType), c \in Colors}

EdgeworkQueries ==
    {EdgeworkQuery(q, NoPort) :
        q \in {"SerialStartsWithLetter", "SerialOdd", "HasEmptyPortPlate"}}
    \cup {EdgeworkQuery("PortPresent", p) : p \in Range(PortType)}

Queries == WireQueries \cup EdgeworkQueries

\* Every rule of one or two queries; is_valid does not read the solution.
IsValidCalls ==
    {[op |-> "is_valid", rule |-> Rule(qs, Index(0))] :
        qs \in {<<q>> : q \in Queries} \cup (Queries \X Queries)}

ValidatorInit ==
    /\ seed = 0
    /\ NotStarted
    /\ NoHandler
    /\ pc = "call"
    /\ call \in IsValidCalls
    /\ ret = NoCall

IsValid ==
    /\ pc = "call"
    /\ call.op = "is_valid"
    /\ ret' = [op |-> call.op, value |-> is_valid(call.rule)]
    /\ pc' = "returned"
    /\ UNCHANGED <<new_vars, call, handler_vars>>

SpecValidator == ValidatorInit /\ [][IsValid]_vars

\* The longest wire sequence handed to WireQuery::evaluate.
MaxWireLen == 4

WireSeqs == UNION {[1..n -> Colors] : n \in 0..MaxWireLen}

WireQueryCalls ==
    {[op |-> "WireQuery::evaluate", query |-> q, wires |-> w] :
        q \in WireQueries, w \in WireSeqs}

\* The most rules of a RuleList handed to RuleList::evaluate.
MaxRules == 2

EvalQueries ==
    {WireQuery("LastWireIs", "Red"), WireQuery("ExactlyOneOfColor", "Blue"),
     EdgeworkQuery("SerialOdd", NoPort)}

EvalRules ==
    {Rule(qs, sol) :
        qs \in {<<q>> : q \in EvalQueries} \cup (EvalQueries \X EvalQueries),
        sol \in {Index(0), Index(1)}}

EvalRuleLists ==
    {RuleList(rs, o) :
        rs \in UNION {[1..n -> EvalRules] : n \in 0..MaxRules},
        o \in {Index(0), Index(2)}}

EvalEdgeworks ==
    {Edgework(<<"K", "T", "4", "N", "E", "8">>, <<>>),
     Edgework(<<"1", "2", "3", "A", "B", "7">>, <<{"Serial"}, {}>>)}

EvalWires == [1..MIN_WIRES -> {"Red", "Blue"}]

RuleListCalls ==
    {[op |-> "RuleList::evaluate", rule_list |-> l, edgework |-> e, wires |-> w] :
        l \in EvalRuleLists, e \in EvalEdgeworks, w \in EvalWires}

EvaluateInit ==
    /\ seed = 0
    /\ NotStarted
    /\ NoHandler
    /\ pc = "call"
    /\ call \in WireQueryCalls \cup RuleListCalls
    /\ ret = NoCall

WireQueryEvaluate ==
    /\ pc = "call"
    /\ call.op = "WireQuery::evaluate"
    /\ IF WireQuery_evaluate_panics(call.query, call.wires)
       THEN /\ pc' = "panic"
            /\ ret' = ret
       ELSE /\ pc' = "returned"
            /\ ret' = [op |-> call.op,
                       value |-> WireQuery_evaluate(call.query, call.wires)]
    /\ UNCHANGED <<new_vars, call, handler_vars>>

RuleListEvaluate ==
    /\ pc = "call"
    /\ call.op = "RuleList::evaluate"
    /\ ret' = [op |-> call.op,
               value |-> RuleList_evaluate(call.rule_list, call.edgework, call.wires)]
    /\ pc' = "returned"
    /\ UNCHANGED <<new_vars, call, handler_vars>>

EvaluateNext == WireQueryEvaluate \/ RuleListEvaluate

SpecEvaluate == EvaluateInit /\ [][EvaluateNext]_vars

\* ------------------------------------------ lookups in a given RuleSet

\* The largest wire count handed to RuleSet::get, to the index operator and,
\* as the length of the wires, to RuleSet::evaluate.
MaxWireCount == 8

\* RuleSets whose four lists differ from one another.
LookupRuleSets ==
    {[i \in 0..(MAX_WIRES - MIN_WIRES) |->
         RuleList(<<Rule(<<q>>, Index(i))>>,
                  ColorSolution("FirstOfColor", Color[i + 1]))] :
        q \in {WireQuery("LastWireIs", "Red"), EdgeworkQuery("SerialOdd", NoPort)}}

LookupWires == UNION {[1..n -> {"Red", "Blue"}] : n \in 0..MaxWireCount}

GetCalls ==
    {[op |-> o, rule_set |-> s, wire_count |-> w] :
        o \in {"RuleSet::get", "RuleSet::index"},
        s \in LookupRuleSets, w \in 0..MaxWireCount}

RuleSetEvaluateCalls ==
    {[op |-> "RuleSet::evaluate", rule_set |-> s, edgework |-> e, wires |-> w] :
        s \in LookupRuleSets, e \in EvalEdgeworks, w \in LookupWires}

Solutions ==
    {Index(n) : n \in 0..MaxWireCount}
    \cup {ColorSolution(k, c) :
             k \in {"TheOneOfColor", "FirstOfColor", "LastOfColor"}, c \in Colors}

AsIndexCalls ==
    {[op |-> "as_index", solution |-> s, wires |-> w] :
        s \in Solutions, w \in WireSeqs}

LookupInit ==
    /\ seed = 0
    /\ NotStarted
    /\ NoHandler
    /\ pc = "call"
    /\ call \in GetCalls \cup RuleSetEvaluateCalls \cup AsIndexCalls
    /\ ret = NoCall

RuleSetGet ==
    /\ pc = "call"
    /\ call.op = "RuleSet::get"
    /\ ret' = [op |-> call.op, value |-> RuleSet_get(call.rule_set, call.wire_count)]
    /\ pc' = "returned"
    /\ UNCHANGED <<new_vars, call, handler_vars>>

RuleSetIndex ==
    /\ pc = "call"
    /\ call.op = "RuleSet::index"
    /\ IF RuleSet_index_panics(call.rule_set, call.wire_count)
       THEN /\ pc' = "panic"
            /\ ret' = ret
       ELSE /\ pc' = "returned"
            /\ ret' = [op |-> call.op,
                       value |-> RuleSet_index(call.rule_set, call.wire_count)]
    /\ UNCHANGED <<new_vars, call, handler_vars>>

RuleSetEvaluate ==
    /\ pc = "call"
    /\ call.op = "RuleSet::evaluate"
    /\ IF RuleSet_evaluate_panics(call.rule_set, call.edgework, call.wires)
       THEN /\ pc' = "panic"
            /\ ret' = ret
       ELSE /\ pc' = "returned"
            /\ ret' = [op |-> call.op,
                       value |-> RuleSet_evaluate(call.rule_set, call.edgework,
                                                  call.wires)]
    /\ UNCHANGED <<new_vars, call, handler_vars>>

AsIndex ==
    /\ pc = "call"
    /\ call.op = "as_index"
    /\ ret' = [op |-> call.op, value |-> as_index(call.solution, call.wires)]
    /\ pc' = "returned"
    /\ UNCHANGED <<new_vars, call, handler_vars>>

LookupNext == RuleSetGet \/ RuleSetIndex \/ RuleSetEvaluate \/ AsIndex

SpecLookup == LookupInit /\ [][LookupNext]_vars

\* ------------------------------------------- one call of generate_rule

\* The values generate_rule draws in one call: the compound roll, and a kind
\* and a colour for each of the two queries and for the solution.
DrawsPerRule == 7

\* A generator state that restricts no draw of one generate_rule call: with
\* all of them counted, MaxHighDraws is not passed.
AnyDraws == MaxHighDraws - DrawsPerRule

\* Weight tables as a call may find them: new, and after some selections.
CallQueryWeights ==
    {NoWeights,
     (WireKey("ExactlyOneOfColor") :> QUERY_DECAY * QUERY_DECAY)
     @@ (EdgeworkQuery("SerialOdd", NoPort) :> QUERY_DECAY)}

CallSolutionWeights ==
    {NoWeights,
     (Index(0) :> SOLUTION_DECAY * SOLUTION_DECAY)
     @@ (ColorSolution("TheOneOfColor", NoColor) :> SOLUTION_DECAY)}

GenerateRuleCalls ==
    {[op |-> "generate_rule", query_weights |-> weights[1],
      solution_weights |-> weights[2], wire_count |-> w, vanilla_seed |-> FALSE] :
        weights \in {<<NoWeights, NoWeights>>} \cup
                    ((CallQueryWeights \ {NoWeights}) \X (CallSolutionWeights \ {NoWeights})),
        w \in MIN_WIRES..MAX_WIRES}

CandidateInit ==
    /\ seed = 0
    /\ NotStarted
    /\ NoHandler
    /\ pc = "call"
    /\ call \in GenerateRuleCalls
    /\ ret = NoCall

\* generate_rule returns a rule and leaves both weight tables updated.
GenerateRuleCall ==
    /\ pc = "call"
    /\ call.op = "generate_rule"
    /\ \E out \in generate_rule(AnyDraws, call.query_weights, call.solution_weights,
                                call.wire_count, call.vanilla_seed) :
          /\ ret' = [op |-> call.op, value |-> out]
          /\ pc' = IF out.panic THEN "panic" ELSE "returned"
    /\ UNCHANGED <<new_vars, call, handler_vars>>

SpecCandidate == CandidateInit /\ [][GenerateRuleCall]_vars

\* --------------------------------------- one SolutionWeightKey::colorize

\* The keys possible_solutions yields.
SolutionWeightKeys ==
    {Index(n) : n \in 0..(MAX_WIRES - 1)}
    \cup {ColorSolution(k, NoColor) : k \in {"TheOneOfColor", "FirstOfColor", "LastOfColor"}}

\* The colour lists generate_rule collects from at most two queries, whose
\* colours differ.
SolutionColorLists ==
    {<<>>} \cup {<<c>> : c \in Colors}
    \cup {l \in Colors \X Colors : l[1] # l[2]}

ColorizeCalls ==
    {[op |-> "SolutionWeightKey::colorize", key |-> k, colors_available |-> l, rnd |-> r] :
        k \in SolutionWeightKeys, l \in SolutionColorLists, r \in 0..MaxHighDraws}

ColorizeInit ==
    /\ seed = 0
    /\ NotStarted
    /\ NoHandler
    /\ pc = "call"
    /\ call \in ColorizeCalls
    /\ ret = NoCall

\* colorize returns the solution and leaves the generator where its call of
\* choice has left it, or panics on unwrap().
SolutionColorize ==
    /\ pc = "call"
    /\ call.op = "SolutionWeightKey::colorize"
    /\ \E out \in SolutionWeightKey_colorize(call.key, call.colors_available, call.rnd) :
          /\ ret' = [op |-> call.op, value |-> out]
          /\ pc' = IF out.panic THEN "panic" ELSE "returned"
    /\ UNCHANGED <<new_vars, call, handler_vars>>

SpecColorize == ColorizeInit /\ [][SolutionColorize]_vars

\* ------------------------------------------------- end_bomb (context.rs)

\* The channels in which a bomb is ticking when the calls begin, each bomb
\* known by its channel, and the threads that call end_bomb, each with its
\* own drop callback, known by the thread.
MaxChannels == 2
MaxThreads == 3

Channels == 1..MaxChannels
Threads == 1..MaxThreads

NoChannel == 0
NoThread == 0

\* get_bomb: the registered bomb of the channel, if any.
get_bomb(bombs_, channel) ==
    IF channel \in bombs_ THEN Some(channel) ELSE None(NoChannel)

\* need_bomb: get_bomb, an absent bomb being the error NoBomb.
need_bomb(bombs_, channel) ==
    LET bomb == get_bomb(bombs_, channel)
    IN  IF bomb.some THEN [ok |-> TRUE, value |-> bomb.value]
        ELSE [ok |-> FALSE, value |-> "NoBomb"]

\* running_in
running_in(bombs_, channel) == channel \in bombs_

\* A remove whose result says a bomb was there whether one was or not.
remove_unchecked(bombs_, channel) ==
    [bombs |-> bombs_ \ {channel}, is_some |-> TRUE]

\* handler.bombs.write().remove(&bomb.channel).is_some(): the registry
\* afterwards and whether the channel had a bomb.
remove(bombs_, channel) ==
    [bombs |-> bombs_ \ {channel}, is_some |-> channel \in bombs_]

BombData == [timer_freezes |-> 0, drop_callback |-> None(NoThread)]

Idle == [pc |-> "idle", bomb |-> NoChannel, removed |-> FALSE]

EndBombInit ==
    /\ seed = 0
    /\ NotStarted
    /\ pc = "handler"
    /\ call = NoCall
    /\ ret = NoCall
    /\ bombs = Channels
    /\ bomb_data = [c \in Channels |-> BombData]
    /\ presence_updates = 0
    /\ threads = [t \in Threads |-> Idle]

\* The thread is between the entry of end_bomb and its return.
InEndBomb(t) == threads[t].pc \notin {"idle", "done"}

\* end_bomb is entered with bomb: &mut BombData, which no other thread can
\* hold at the same time.
EndBombCall(t) ==
    /\ threads[t].pc = "idle"
    /\ \E bomb \in Channels :
          /\ \A u \in Threads \ {t} : InEndBomb(u) => threads[u].bomb # bomb
          /\ threads' = [threads EXCEPT ![t] = [pc |-> "remove", bomb |-> bomb,
                                                removed |-> FALSE]]
    /\ UNCHANGED <<new_vars, pc, call, ret, bombs, bomb_data, presence_updates>>

\* The condition of the if: the channel is removed from the registry under
\* its write lock, which is released before the body.
EndBombRemove(t) ==
    /\ threads[t].pc = "remove"
    /\ LET removed == remove(bombs, threads[t].bomb)
       IN  /\ bombs' = removed.bombs
           /\ threads' = [threads EXCEPT ![t].removed = removed.is_some,
                                         ![t].pc = IF removed.is_some THEN "freeze"
                                                   ELSE "done"]
    /\ UNCHANGED <<new_vars, pc, call, ret, bomb_data, presence_updates>>

\* bomb.timer.freeze()
EndBombFreeze(t) ==
    /\ threads[t].pc = "freeze"
    /\ bomb_data' = [bomb_data EXCEPT ![threads[t].bomb].timer_freezes = @ + 1]
    /\ threads' = [threads EXCEPT ![t].pc = "drop_callback"]
    /\ UNCHANGED <<new_vars, pc, call, ret, bombs, presence_updates>>

\* bomb.drop_callback = Some(Box::new(drop_callback))
EndBombDropCallback(t) ==
    /\ threads[t].pc = "drop_callback"
    /\ bomb_data' = [bomb_data EXCEPT ![threads[t].bomb].drop_callback = Some(t)]
    /\ threads' = [threads EXCEPT ![t].pc = "presence"]
    /\ UNCHANGED <<new_vars, pc, call, ret, bombs, presence_updates>>

\* handler.schedule_presence_update(), and the return.
EndBombPresence(t) ==
    /\ threads[t].pc = "presence"
    /\ presence_updates' = presence_updates + 1
    /\ threads' = [threads EXCEPT ![t].pc = "done"]
    /\ UNCHANGED <<new_vars, pc, call, ret, bombs, bomb_data>>

EndBombNext ==
    \E t \in Threads :
        \/ EndBombCall(t)
        \/ EndBombRemove(t)
        \/ EndBombFreeze(t)
        \/ EndBombDropCallback(t)
        \/ EndBombPresence(t)

SpecEndBomb == EndBombInit /\ [][EndBombNext]_vars

\* ---------------------------------------------- parse_group (starting.rs)
\* A specifier is the sequence of its pieces: the characters '+' and '-',
\* and the runs of other characters, which stand undivided.  A name is a
\* slice of the specifier, so again a sequence of pieces.

\* The longest specifier handed to parse_group.
MaxSpecifierLen == 5

Operators == {"+", "-"}

\* crate::modules::MODULE_GROUPS as parse_group_test knows it: "wires" is
\* the group of the one module wires and "all" holds it too; "thing" is no
\* key.
MODULE_GROUPS == ("wires" :> {"wires"}) @@ ("all" :> {"wires"})

Pieces == Operators \cup DOMAIN MODULE_GROUPS \cup {"thing"}

Specifiers == UNION {[1..n -> Pieces] : n \in 0..MaxSpecifierLen}

Ok(value) == [ok |-> TRUE, value |-> value]
Err(title, detail) == [ok |-> FALSE, value |-> <<title, detail>>]

\* MODULE_GROUPS.get(name): two runs side by side are one longer name,
\* which is no key.
MODULE_GROUPS_get(name) ==
    IF Len(name) = 1 /\ name[1] \in DOMAIN MODULE_GROUPS
    THEN Some(MODULE_GROUPS[name[1]])
    ELSE None({})

\* A handle_group that inserts whatever the operator before the name.
handle_group_insert_only(output, name, removing) ==
    LET group == MODULE_GROUPS_get(name)
    IN  IF group.some THEN Ok(output \cup group.value)
        ELSE Err("No such module", name)

\* handle_group: the output afterwards, or the error.
handle_group(output, name, removing) ==
    LET group == MODULE_GROUPS_get(name)
    IN  IF group.some
        THEN Ok(IF removing THEN output \ group.value ELSE output \cup group.value)
        ELSE Err("No such module", name)

\* The for loop of parse_group from the piece at index_ on (counted from 0),
\* and what follows the loop.
RECURSIVE parse_group_from(_, _, _, _, _)
parse_group_from(input, index_, starting_index, removing, output) ==
    IF index_ = Len(input)
    THEN LET name == SubSeq(input, starting_index + 1, Len(input))
         IN  IF name = <<>>
             THEN Err("Syntax error", <<"ends with an operator">>)
             ELSE handle_group(output, name, removing)
    ELSE LET ch == input[index_ + 1]
         IN  IF ch \in Operators
             THEN LET name == SubSeq(input, starting_index + 1, index_)
                      handled == handle_group(output, name, removing)
                  IN  IF name = <<>>
                      THEN IF index_ = 0
                           THEN Err("Syntax error", <<"starts with an operator">>)
                           ELSE Err("Syntax error",
                                    <<"two operators after">> \o SubSeq(input, 1, index_ - 1))
                      ELSE IF ~handled.ok THEN handled
                      ELSE parse_group_from(input, index_ + 1, index_ + 1, ch = "-",
                                            handled.value)
             ELSE parse_group_from(input, index_ + 1, starting_index, removing, output)

\* parse_group
parse_group(input) == parse_group_from(input, 0, 0, FALSE, {})

ParseGroupCalls == {[op |-> "parse_group", input |-> i] : i \in Specifiers}

ParseGroupInit ==
    /\ seed = 0
    /\ NotStarted
    /\ NoHandler
    /\ pc = "call"
    /\ call \in ParseGroupCalls
    /\ ret = NoCall

ParseGroup ==
    /\ pc = "call"
    /\ call.op = "parse_group"
    /\ ret' = [op |-> call.op, value |-> parse_group(call.input)]
    /\ pc' = "returned"
    /\ UNCHANGED <<new_vars, call, handler_vars>>

SpecParseGroup == ParseGroupInit /\ [][ParseGroup]_vars

\* ----------------------------------------------------------- properties

IsCompound(rule) == Len(rule.queries) = 2
IsSingle(rule) == Len(rule.queries) = 1

\* The RuleLists emitted and still held.
Emitted == {ruleset[i] : i \in DOMAIN ruleset}

\* The closure has just returned its RuleList: rule_count and generated are
\* still those of that list.
JustEmitted == pc \in {"new", "done"} /\ DOMAIN ruleset # {}

\* C2: every emitted RuleList holds exactly 3 or exactly 4 rules; while a
\* list is generated the number of rules accumulated never exceeds the
\* rolled rule_count, and it equals rule_count when the list is emitted.
C2_RuleCount ==
    /\ pc = "loop" => rule_count \in {3, 4} /\ Len(rules) <= rule_count
    /\ \A list \in Emitted : Len(list.rules) \in {3, 4}
    /\ JustEmitted => \A list \in Emitted : Len(list.rules) = rule_count

\* A run that ended with the last list holding the 4 rules that were rolled.
C2_Witness ==
    /\ pc = "done"
    /\ rule_count = 4
    /\ \E list \in Emitted : Len(list.rules) = 4

\* C3: in every emitted RuleList no single-query rule precedes a two-query
\* rule, and the list is the two-query rules in the order they were
\* generated followed by the single-query rules in the order they were
\* generated.
C3_CompoundFirstStable ==
    JustEmitted =>
        \A list \in Emitted :
            /\ \A a, b \in DOMAIN list.rules :
                   a < b => ~(IsSingle(list.rules[a]) /\ IsCompound(list.rules[b]))
            /\ list.rules = SelectSeq(generated, IsCompound)
                            \o SelectSeq(generated, IsSingle)

\* A list whose sort moved a compound rule in front of two different
\* single-query rules.
C3_Witness ==
    /\ JustEmitted
    /\ \E list \in Emitted :
          /\ list.rules # generated
          /\ \E a, b \in DOMAIN generated :
                /\ a < b
                /\ IsSingle(generated[a])
                /\ IsSingle(generated[b])
                /\ generated[a] # generated[b]

\* C4: every rule stored in the rule list under construction or in an
\* emitted RuleList passes is_valid, and a candidate that is_valid rejects
\* is not among the stored rules.
C4_StoredRulesValid ==
    /\ \A r \in Range(rules) : is_valid(r)
    /\ \A list \in Emitted : \A r \in Range(list.rules) : is_valid(r)
    /\ \A c \in Range(candidate) :
           ~is_valid(c) => /\ c \notin Range(rules)
                           /\ generated = rules

\* A candidate was rejected while rules were already stored.
C4_Witness ==
    /\ pc = "loop"
    /\ rules # <<>>
    /\ \E c \in Range(candidate) : ~is_valid(c)

\* C5 as claimed: the otherwise solution of an emitted RuleList differs from
\* the solution of the rule accepted last, in generation order.
C5_OtherwiseNotLastGenerated ==
    JustEmitted =>
        \A list \in Emitted : list.otherwise # generated[Len(generated)].solution

\* C5 as amended: the otherwise solution of an emitted RuleList differs from
\* the solution of the last rule of the list as stored, that is after the
\* sort that puts the compound rules in front.
C5_OtherwiseNotLastStored ==
    \A list \in Emitted : list.otherwise # list.rules[Len(list.rules)].solution

\* A list whose last stored rule is not the rule generated last and has an
\* Index solution, which the otherwise draw had to avoid.
C5_Witness ==
    /\ JustEmitted
    /\ \E list \in Emitted :
          /\ list.rules[Len(list.rules)] # generated[Len(generated)]
          /\ list.rules[Len(list.rules)].solution.kind = "Index"
          /\ list.otherwise = generated[Len(generated)].solution

IndexInRange(solution, w) == solution.kind = "Index" => solution.n \in 0..(w - 1)

\* C6: every Index(n) solution of a candidate, of a stored rule or of an
\* otherwise fallback for wire count w has 0 <= n <= w - 1, and the base
\* candidates of possible_solutions are the w values Index(0)..Index(w-1),
\* each once.
C6_IndexRange ==
    /\ pc \in {"loop", "done"} =>
           \A r \in Range(rules) \cup Range(candidate) :
               IndexInRange(r.solution, wire_count)
    /\ \A i \in DOMAIN ruleset :
           /\ IndexInRange(ruleset[i].otherwise, i + MIN_WIRES)
           /\ \A r \in Range(ruleset[i].rules) :
                  IndexInRange(r.solution, i + MIN_WIRES)
    /\ LET base == possible_solutions(<<>>, wire_count)
       IN  /\ Len(base) = wire_count
           /\ Range(base) = {Index(n) : n \in 0..(wire_count - 1)}

\* The list for 6 wires holds a rule cutting the last wire and falls back
\* to another Index solution.
C6_Witness ==
    /\ pc = "done"
    /\ \E list \in Emitted :
          /\ list.otherwise.kind = "Index"
          /\ list.otherwise.n > 1
          /\ \E r \in Range(list.rules) : r.solution = Index(MAX_WIRES - 1)

KindPair(rule) == {rule.queries[1].query_type, rule.queries[2].query_type}

TwoWireQueries(rule) ==
    /\ Len(rule.queries) = 2
    /\ rule.queries[1].tag = "Wire"
    /\ rule.queries[2].tag = "Wire"

SameColor(rule) == rule.queries[1].color = rule.queries[2].color

FourPairs ==
    {{"ExactlyOneOfColor", "ExactlyZeroOfColor"},
     {"ExactlyOneOfColor", "MoreThanOneOfColor"},
     {"MoreThanOneOfColor", "ExactlyZeroOfColor"},
     {"LastWireIs", "ExactlyZeroOfColor"}}

C7_Rejected(rule) ==
    /\ TwoWireQueries(rule)
    /\ \/ SameColor(rule) /\ KindPair(rule) \in FourPairs
       \/ ~SameColor(rule) /\ KindPair(rule) = {"LastWireIs"}

Swapped(rule) == Rule(<<rule.queries[2], rule.queries[1]>>, rule.solution)

\* C7: is_valid returns false exactly for a rule of two WireQueries that
\* either have the same colour and an unordered kind pair among the four
\* listed, or have different colours and are both LastWireIs; it returns true
\* for every other rule, and the same for the two queries swapped.
C7_Validator ==
    pc = "returned" /\ call.op = "is_valid" =>
        /\ ret.value = ~C7_Rejected(call.rule)
        /\ Len(call.rule.queries) = 2 => is_valid(Swapped(call.rule)) = ret.value

\* A rejected pair given in the order opposite to the listed one.
C7_Witness ==
    /\ pc = "returned"
    /\ call.op = "is_valid"
    /\ ~ret.value
    /\ TwoWireQueries(call.rule)
    /\ call.rule.queries[1].query_type = "ExactlyZeroOfColor"
    /\ call.rule.queries[2].query_type = "LastWireIs"

MatchingRules ==
    {i \in DOMAIN call.rule_list.rules :
        \A q \in Range(call.rule_list.rules[i].queries) :
            Query_evaluate(q, call.edgework, call.wires)}

\* C9: RuleList::evaluate returns the solution of the matching rule of
\* lowest position when some rule matches, and the otherwise solution when
\* none does.
C9_FirstMatch ==
    pc = "returned" /\ call.op = "RuleList::evaluate" =>
        IF MatchingRules = {}
        THEN ret.value = call.rule_list.otherwise
        ELSE \E i \in MatchingRules :
                 /\ \A j \in MatchingRules : i <= j
                 /\ ret.value = call.rule_list.rules[i].solution

\* Two rules match, with different solutions that both differ from otherwise.
C9_Witness ==
    /\ pc = "returned"
    /\ call.op = "RuleList::evaluate"
    /\ MatchingRules = {1, 2}
    /\ call.rule_list.rules[1].solution # call.rule_list.rules[2].solution
    /\ call.rule_list.otherwise # call.rule_list.rules[1].solution
    /\ call.rule_list.otherwise # call.rule_list.rules[2].solution

CountOf(color, wires) == Cardinality({i \in DOMAIN wires : wires[i] = color})

\* C10: on a non-empty wire sequence LastWireIs(c) holds iff the last wire
\* is c, ExactlyOneOfColor(c) iff exactly one wire is c, MoreThanOneOfColor(c)
\* iff at least two wires are c, ExactlyZeroOfColor(c) iff no wire is c; so
\* exactly one of the three count kinds holds for c.
C10_WireQueryTruth ==
    pc = "returned" /\ call.op = "WireQuery::evaluate" /\ call.wires # <<>> =>
        LET c == call.query.color
            n == CountOf(c, call.wires)
            kind == call.query.query_type
        IN  /\ kind = "LastWireIs" => ret.value = (call.wires[Len(call.wires)] = c)
            /\ kind = "ExactlyOneOfColor" => ret.value = (n = 1)
            /\ kind = "MoreThanOneOfColor" => ret.value = (n >= 2)
            /\ kind = "ExactlyZeroOfColor" => ret.value = (n = 0)
            /\ Cardinality({k \in {"ExactlyZeroOfColor", "ExactlyOneOfColor",
                                   "MoreThanOneOfColor"} :
                               WireQuery_evaluate(WireQuery(k, c), call.wires)}) = 1

\* MoreThanOneOfColor held of a sequence with three wires of the colour, the
\* last wire being of another.
C10_Witness ==
    /\ pc = "returned"
    /\ call.op = "WireQuery::evaluate"
    /\ call.query.query_type = "MoreThanOneOfColor"
    /\ CountOf(call.query.color, call.wires) = 3
    /\ call.wires[Len(call.wires)] # call.query.color
    /\ ret.value

Finished == pc \in {"returned", "panic"}

InWireRange(n) == MIN_WIRES <= n /\ n <= MAX_WIRES

\* The solutions a RuleList can return.
SolutionsOf(list) == {list.otherwise} \cup {list.rules[i].solution : i \in DOMAIN list.rules}

Generated == pc = "returned" /\ call.op = "generate_rule"

\* The wire sequences of a module of w wires.
WiresOf(w) == [1..w -> Colors]

\* C13 as claimed: whenever a generated rule that the validator accepts has
\* the solution TheOneOfColor(c) and matches a wire sequence of its wire
\* count, that sequence holds exactly one wire of colour c.
C13_TheOneOfColorUnique ==
    Generated /\ is_valid(ret.value.rule)
    /\ ret.value.rule.solution.kind = "TheOneOfColor" =>
        \A wires \in WiresOf(call.wire_count) : \A edgework \in EvalEdgeworks :
            Rule_evaluate(ret.value.rule, edgework, wires) =>
                CountOf(ret.value.rule.solution.color, wires) = 1

\* C14 as claimed: RuleSet::new called with the reserved seed comes back
\* with the reference rule set: it neither enters the generation loop nor
\* draws from the generator, and it does not fail.
C14_VanillaReturnsRuleSet ==
    seed = VANILLA_SEED =>
        /\ pc \notin {"loop", "unimplemented", "panic"}
        /\ random = 0
        /\ rules = <<>>

\* The while loop is about to run another turn.
InLoop == pc = "loop" /\ loop_continues(rules, rule_count)

AcceptSingle == AcceptRule /\ IsSingle(candidate'[1])

AcceptCompound == AcceptRule /\ IsCompound(candidate'[1])

RECURSIVE TimesDecayed(_, _)
TimesDecayed(d, factor) ==
    IF d <= 1 THEN 0 ELSE 1 + TimesDecayed(d \div factor, factor)

RECURSIVE SumOf(_, _, _)
SumOf(weights, keys, factor) ==
    IF keys = {} THEN 0
    ELSE LET key == CHOOSE k \in keys : TRUE
         IN  TimesDecayed(weights[key], factor) + SumOf(weights, keys \ {key}, factor)

\* The number of selections a weight table has recorded.
Selections(weights, factor) == SumOf(weights, DOMAIN weights, factor)

ColorsNamed(rule) ==
    {rule.queries[i].color : i \in {j \in DOMAIN rule.queries : rule.queries[j].tag = "Wire"}}

\* The wire sequences of w wires, up to the colours the rule does not name:
\* a query and a solution only compare a wire with a colour the rule names,
\* so one colour stands for all the others.
WiresNaming(rule, w) ==
    [1..w -> ColorsNamed(rule) \cup {CHOOSE c \in Colors : c \notin ColorsNamed(rule)}]

\* Bomb facts under which each edgework query holds and under which it fails.
BombFacts ==
    EvalEdgeworks
    \cup {Edgework(<<"Z", "Z", "9", "Z", "Z", "9">>, <<Range(PortType)>>)}

\* The bomb facts that tell rules apart: any will do for a rule without
\* an edgework query.
BombFactsFor(rule) ==
    IF \E i \in DOMAIN rule.queries : rule.queries[i].tag = "Edgework"
    THEN BombFacts
    ELSE {CHOOSE edgework \in BombFacts : TRUE}

\* The RuleLists RuleSet::new can build around a stored rule, as far as the
\* result of evaluate goes: the rule, with each otherwise solution it allows.
ListsAround(rule, w) ==
    {RuleList(<<rule>>, o) : o \in Range(otherwise_solutions(<<rule>>, w, 0))}

\* RuleSet::evaluate on a rule set holding the list: it does not panic and
\* as_index resolves its result to a position of the wires.
Resolves(list, edgework, wires) ==
    LET rule_set == [i \in 0..(MAX_WIRES - MIN_WIRES) |-> list]
        at == as_index(RuleSet_evaluate(rule_set, edgework, wires), wires)
    IN  /\ ~RuleSet_evaluate_panics(rule_set, edgework, wires)
        /\ at.some
        /\ at.value \in 0..(Len(wires) - 1)

\* C16: for every rule generate_rule can return for w wires and is_valid
\* accepts, as_index resolves the solution evaluate returns to Some(i) with
\* 0 <= i < w: for a list built around the rule, all bomb facts and every
\* sequence of w wires, and for every list built around it (each otherwise
\* solution) on the sequences of w wires of one colour.
C16_EvaluateResolves ==
    Generated /\ is_valid(ret.value.rule) =>
        LET w == call.wire_count
            rule == ret.value.rule
            lists == ListsAround(rule, w)
        IN  /\ lists # {}
            /\ \A edgework \in BombFactsFor(rule) : \A wires \in WiresNaming(rule, w) :
                   Resolves(CHOOSE list \in lists : TRUE, edgework, wires)
            /\ \A list \in lists : \A edgework \in BombFacts : \A c \in Colors :
                   Resolves(list, edgework, [i \in 1..w |-> c])

\* A rule for 6 wires that cuts the last wire of the colour its
\* MoreThanOneOfColor query names was generated.
C16_Witness ==
    /\ Generated
    /\ call.wire_count = MAX_WIRES
    /\ is_valid(ret.value.rule)
    /\ ret.value.rule.solution.kind = "LastOfColor"
    /\ \E i \in DOMAIN ret.value.rule.queries :
          /\ ret.value.rule.queries[i].tag = "Wire"
          /\ ret.value.rule.queries[i].query_type = "MoreThanOneOfColor"
          /\ ret.value.rule.queries[i].color = ret.value.rule.solution.color

\* C17: when the generation for a wire count starts both weight tables are
\* empty (every weight is the default 1.0), and after the first candidate of
\* a list the tables hold the selections of that candidate and nothing else,
\* whatever was selected for the wire counts before.
C17_FreshWeights ==
    [][/\ pc = "new" /\ pc' = "loop" =>
              query_weights' = NoWeights /\ solution_weights' = NoWeights
       /\ pc = "loop" /\ pc' = "loop" /\ candidate = <<>> =>
              /\ Selections(solution_weights', SOLUTION_DECAY) = 1
              /\ Selections(query_weights', QUERY_DECAY) = Len(candidate'[1].queries)
              /\ DOMAIN solution_weights' = {SolutionWeightKey(candidate'[1].solution)}]_vars

\* The first candidate of a later list took the solution a rule of the list
\* before it had taken, and found its weight at the default.
C17_Witness ==
    /\ pc = "loop"
    /\ index > 0
    /\ candidate # <<>>
    /\ Selections(solution_weights, SOLUTION_DECAY) = 1
    /\ \E list \in Emitted : \E r \in Range(list.rules) :
          SolutionWeightKey(r.solution) \in DOMAIN solution_weights

\* impl From<Query> for QueryWeightKey, as the claims read it: the kind of a
\* wire query whatever its colour, an edgework query as it is.
KeyOf(query) == IF query.tag = "Wire" THEN WireKey(query.query_type) ELSE query

\* The inverse of the weight weighted_select sees for a key.
InverseWeight(weights, key) == IF key \in DOMAIN weights THEN weights[key] ELSE 1

RECURSIVE Power(_, _)
Power(base, k) == IF k = 0 THEN 1 ELSE base * Power(base, k - 1)

\* C18: every turn of the loop, whether its candidate is then pushed or
\* rejected, multiplies the weight of each query key by 0.1 once for each
\* query of the candidate with that key (twice when the main and the
\* auxiliary query have the same kind: the second selection starts from the
\* weight the first has left) and the weight of the key of the candidate's
\* solution by 0.05, and leaves every other weight alone; so every weight
\* in the tables is 0.1^k, or 0.05^k, for the number k of selections of its
\* key for this wire count.
C18_WeightDecay ==
    /\ [][pc = "loop" /\ pc' = "loop" =>
              LET rule == candidate'[1]
                  Picked(key) ==
                      Cardinality({i \in DOMAIN rule.queries : KeyOf(rule.queries[i]) = key})
                  query_keys == DOMAIN query_weights \cup DOMAIN query_weights'
                                \cup {KeyOf(rule.queries[i]) : i \in DOMAIN rule.queries}
                  solution_keys == DOMAIN solution_weights \cup DOMAIN solution_weights'
                                   \cup {SolutionWeightKey(rule.solution)}
              IN  /\ \A key \in query_keys :
                         InverseWeight(query_weights', key) =
                             InverseWeight(query_weights, key) * Power(10, Picked(key))
                  /\ \A key \in solution_keys :
                         InverseWeight(solution_weights', key) =
                             InverseWeight(solution_weights, key)
                             * (IF key = SolutionWeightKey(rule.solution) THEN 20 ELSE 1)]_vars
    /\ [](/\ \A key \in DOMAIN query_weights :
                 query_weights[key] = Power(10, TimesDecayed(query_weights[key], 10))
          /\ \A key \in DOMAIN solution_weights :
                 solution_weights[key] = Power(20, TimesDecayed(solution_weights[key], 20))
          /\ pc = "loop" =>
                 Selections(solution_weights, 20) >= Len(generated))

\* A candidate of two LastWireIs queries was rejected: the weight of that
\* kind stands at 0.01 and the selection of its solution is counted.
C18_Witness ==
    /\ pc = "loop"
    /\ \E c \in Range(candidate) : ~is_valid(c)
    /\ InverseWeight(query_weights, WireKey("LastWireIs")) = 100
    /\ Selections(solution_weights, 20) = Len(generated) + 1

\* The summed wires-involved cost of a rule's queries.
RECURSIVE CostOf(_)
CostOf(queries) ==
    IF queries = <<>> THEN 0
    ELSE Query_wires_involved(Head(queries)) + CostOf(Tail(queries))

\* C19: in every rule generate_rule returns for wire count w, a second
\* query that is a WireQuery costs strictly less than w minus the cost of
\* the first (MoreThanOneOfColor 2, ExactlyZeroOfColor 0, the others 1), the
\* costs of the rule's queries sum to at most w - 1, the first query is a
\* WireQuery, and an EdgeworkQuery stands second or nowhere.
C19_AuxiliaryCost ==
    Generated =>
        LET queries == ret.value.rule.queries
        IN  /\ Len(queries) \in {1, 2}
            /\ queries[1].tag = "Wire"
            /\ \A i \in DOMAIN queries : queries[i].tag = "Edgework" => i = 2
            /\ Len(queries) = 2 /\ queries[2].tag = "Wire" =>
                   /\ wires_involved(queries[2].query_type) \in {0, 1, 2}
                   /\ wires_involved(queries[2].query_type) = 2 <=>
                          queries[2].query_type = "MoreThanOneOfColor"
                   /\ wires_involved(queries[2].query_type) = 0 <=>
                          queries[2].query_type = "ExactlyZeroOfColor"
                   /\ wires_involved(queries[2].query_type)
                          < call.wire_count - wires_involved(queries[1].query_type)
            /\ CostOf(queries) <= call.wire_count - 1

\* For three wires a main query that costs two leaves one: ExactlyZeroOfColor
\* was the only wire query eligible beside it, and was chosen.
C19_Witness ==
    /\ Generated
    /\ call.wire_count = MIN_WIRES
    /\ Len(ret.value.rule.queries) = 2
    /\ ret.value.rule.queries[1].query_type = "MoreThanOneOfColor"
    /\ ret.value.rule.queries[2].tag = "Wire"
    /\ ret.value.rule.queries[2].query_type = "ExactlyZeroOfColor"
    /\ CostOf(ret.value.rule.queries) = call.wire_count - 1

\* C20: the wire queries of one rule take their colours from one pool
\* without replacement, so two wire queries of a returned rule differ in
\* colour and no returned rule has the same query twice; the pool is whole
\* again at every call: whatever the calls before, the main query of the
\* next candidate can have each of the five colours.
C20_DistinctColors ==
    /\ Generated =>
           LET queries == ret.value.rule.queries
           IN  \A i, j \in DOMAIN queries :
                   i # j => /\ queries[i] # queries[j]
                            /\ queries[i].tag = "Wire" /\ queries[j].tag = "Wire" =>
                                   queries[i].color # queries[j].color
    /\ pc = "call" /\ call.op = "generate_rule" =>
           Colors \subseteq
               {out.rule.queries[1].color :
                    out \in generate_rule(AnyDraws, call.query_weights,
                                          call.solution_weights, call.wire_count,
                                          call.vanilla_seed)}

\* Two wire queries of the same kind in one returned rule, told apart by
\* their colours only.
C20_Witness ==
    /\ Generated
    /\ Len(ret.value.rule.queries) = 2
    /\ ret.value.rule.queries[2].tag = "Wire"
    /\ ret.value.rule.queries[1].query_type = ret.value.rule.queries[2].query_type
    /\ ret.value.rule.queries[1].color # ret.value.rule.queries[2].color

\* The wire queries of a rule whose kind is one of kinds.
QueriesOfKind(rule, kinds) ==
    {rule.queries[i] : i \in {j \in DOMAIN rule.queries :
                                 /\ rule.queries[j].tag = "Wire"
                                 /\ rule.queries[j].query_type \in kinds}}

\* C21: the solution of every rule generate_rule returns is justified by the
\* rule's queries: it is TheOneOfColor only if a query is ExactlyOneOfColor,
\* FirstOfColor or LastOfColor only if a query is MoreThanOneOfColor, and a
\* coloured solution has the colour of one of the rule's ExactlyOneOfColor,
\* MoreThanOneOfColor or LastWireIs queries.
C21_SolutionJustified ==
    Generated =>
        LET rule == ret.value.rule
            solution == rule.solution
        IN  /\ solution.kind \in {"Index", "TheOneOfColor", "FirstOfColor", "LastOfColor"}
            /\ solution.kind = "TheOneOfColor" =>
                   QueriesOfKind(rule, {"ExactlyOneOfColor"}) # {}
            /\ solution.kind \in {"FirstOfColor", "LastOfColor"} =>
                   QueriesOfKind(rule, {"MoreThanOneOfColor"}) # {}
            /\ solution.kind # "Index" =>
                   \E query \in QueriesOfKind(rule, {"ExactlyOneOfColor",
                                                     "MoreThanOneOfColor",
                                                     "LastWireIs"}) :
                       solution.color = query.color
            /\ solution.kind = "Index" => solution.color = NoColor

\* A FirstOfColor solution beside a MoreThanOneOfColor and an
\* ExactlyZeroOfColor query: its colour is the former's.
C21_Witness ==
    /\ Generated
    /\ ret.value.rule.solution.kind = "FirstOfColor"
    /\ QueriesOfKind(ret.value.rule, {"ExactlyZeroOfColor"}) # {}
    /\ \E query \in QueriesOfKind(ret.value.rule, {"MoreThanOneOfColor"}) :
           ret.value.rule.solution.color = query.color

Colorized == pc = "returned" /\ call.op = "SolutionWeightKey::colorize"

\* C22 as stated: colourising an Index solution makes no pick, so the
\* generator is after it where the weighted selection has left it.
C22_IndexSkipsChoice ==
    Colorized /\ call.key.kind = "Index" => ret.value.rnd = call.rnd

\* C22: colorize calls the generator's choice on the contributed colours
\* for every solution kind, Index included, before it looks at the kind:
\* the generator is left as a choice among those colours leaves it, an
\* Index solution is returned as it was selected and the pick is dropped, a
\* coloured solution gets the colour picked.
C22_ChoiceBeforeMatch ==
    /\ pc = "call" /\ call.op = "SolutionWeightKey::colorize" =>
           {out.rnd : out \in SolutionWeightKey_colorize(
                                  call.key, call.colors_available, call.rnd)}
               = {c.rnd : c \in choice(call.colors_available, call.rnd)}
    /\ Colorized =>
           /\ \E c \in choice(call.colors_available, call.rnd) : ret.value.rnd = c.rnd
           /\ call.key.kind = "Index" => ret.value.solution = call.key
           /\ call.key.kind # "Index" =>
                  /\ ret.value.solution.kind = call.key.kind
                  /\ ret.value.solution.color \in Range(call.colors_available)
    /\ pc = "panic" /\ call.op = "SolutionWeightKey::colorize" =>
           call.key.kind # "Index" /\ call.colors_available = <<>>

\* An Index solution was colourised with two colours contributed and the
\* pick, not the first of them, has advanced the generator.
C22_Witness ==
    /\ Colorized
    /\ call.key.kind = "Index"
    /\ Len(call.colors_available) = 2
    /\ ret.value.rnd # call.rnd
    /\ ret.value.solution = call.key

\* The candidate sets generate_rule draws from on the way to rule, for
\* wire count w, are not empty: the colour pool at each colourisation of a
\* wire query, the query lists, the solution list, and the contributed
\* colours if the solution takes a colour.
DrawsFromNonEmpty(rule, w, vanilla_seed) ==
    /\ main_available_queries # <<>>
    /\ \A i \in DOMAIN rule.queries :
           rule.queries[i].tag = "Wire" =>
               Len(Color) - Cardinality({j \in 1..(i - 1) : rule.queries[j].tag = "Wire"}) > 0
    /\ Len(rule.queries) = 2 =>
           auxiliary_available_queries(rule.queries[1], w, vanilla_seed) # <<>>
    /\ possible_solutions(rule.queries, w) # <<>>
    /\ rule.solution.kind # "Index" => flat_map_solution_colors(rule.queries) # <<>>

\* C23: during RuleSet::new, for every wire count 3..6, nothing is drawn
\* from an empty set: no unwrap() of an absent value panics; every
\* candidate rule, and before the first list every rule generate_rule can
\* return for any of the wire counts, was drawn from non-empty colour
\* pools, query lists, solution lists and, for a coloured solution,
\* contributed colours; and when the loop is left there is a last rule and
\* the otherwise candidates without its solution are not empty.
C23_NoEmptyDraw ==
    /\ pc # "panic"
    /\ wire_count \in MIN_WIRES..MAX_WIRES
    /\ \A rule \in Range(candidate) : DrawsFromNonEmpty(rule, wire_count, seed = VANILLA_SEED)
    /\ pc = "new" /\ index = 0 =>
           \A w \in MIN_WIRES..MAX_WIRES :
               \A out \in generate_rule(AnyDraws, NoWeights, NoWeights, w,
                                        seed = VANILLA_SEED) :
                   ~out.panic /\ DrawsFromNonEmpty(out.rule, w, seed = VANILLA_SEED)
    /\ pc = "loop" /\ ~loop_continues(rules, rule_count) =>
           /\ rules # <<>>
           /\ otherwise_solutions(sort_by_key(rules), wire_count, seed) # <<>>
           /\ Len(possible_solutions(<<>>, wire_count)) = wire_count

\* A candidate with a MoreThanOneOfColor query and no other coloured one got
\* a coloured solution: the single contributed colour was there to pick.
C23_Witness ==
    /\ pc = "loop"
    /\ \E rule \in Range(candidate) :
           /\ rule.solution.kind \in {"FirstOfColor", "LastOfColor"}
           /\ Len(flat_map_solution_colors(rule.queries)) = 1
           /\ QueriesOfKind(rule, {"ExactlyOneOfColor"}) = {}

\* C24 as stated: a LastWireIs query evaluated against no wires returns
\* false.
C24_LastWireIsFalseOnEmpty ==
    /\ Finished
    /\ call.op = "WireQuery::evaluate"
    /\ call.query.query_type = "LastWireIs"
    /\ call.wires = <<>>
    => pc = "returned" /\ ret.value = FALSE

\* C24: LastWireIs(c) requires a non-empty sequence: evaluated against no
\* wires it panics, for every colour c, and returns nothing; the count
\* kinds evaluate normally there (no wire is c: ExactlyZeroOfColor holds, the
\* other two do not), and no kind panics on a non-empty sequence.
C24_LastWireIsNeedsWire ==
    Finished /\ call.op = "WireQuery::evaluate" =>
        /\ pc = "panic" <=> call.query.query_type = "LastWireIs" /\ call.wires = <<>>
        /\ pc = "panic" => ret = NoCall
        /\ pc = "returned" /\ call.wires = <<>> =>
               ret.value = (call.query.query_type = "ExactlyZeroOfColor")

\* LastWireIs was evaluated against no wires.
C24_Witness ==
    /\ pc = "panic"
    /\ call.op = "WireQuery::evaluate"
    /\ call.query.query_type = "LastWireIs"
    /\ call.wires = <<>>
    /\ ret = NoCall

\* The callers of end_bomb for the bomb of a channel whose remove() found
\* the bomb registered, and those whose call is past its remove().
Removers(channel) ==
    {t \in DOMAIN threads : threads[t].bomb = channel /\ threads[t].removed}

PastRemove(channel) ==
    {t \in DOMAIN threads : threads[t].bomb = channel
                            /\ threads[t].pc \notin {"idle", "remove"}}

\* C25: of the calls of end_bomb for one bomb, in any interleaving with the
\* calls for other bombs, one at most removes the channel from the registry,
\* and it is the first; only that call freezes the timer, installs its drop
\* callback and schedules a presence update, every later call leaves the
\* bomb's timer and drop callback as they are; and once a call is past its
\* remove(), running_in and get_bomb report no bomb for the channel.
C25_FirstEndBombOnly ==
    /\ [](\A c \in DOMAIN bomb_data :
             /\ Cardinality(Removers(c)) <= 1
             /\ bomb_data[c].timer_freezes <= 1
             /\ bomb_data[c].drop_callback.some =>
                    bomb_data[c].drop_callback.value \in Removers(c)
             /\ PastRemove(c) # {} =>
                    /\ Removers(c) # {}
                    /\ ~running_in(bombs, c)
                    /\ ~get_bomb(bombs, c).some
                    /\ ~need_bomb(bombs, c).ok
             /\ \A t \in Removers(c) :
                    threads[t].pc = "done" =>
                        /\ bomb_data[c].timer_freezes = 1
                        /\ bomb_data[c].drop_callback = Some(t))
    /\ [](presence_updates <= Cardinality({c \in DOMAIN bomb_data : Removers(c) # {}}))
    /\ [][\A t \in DOMAIN threads :
              threads'[t] # threads[t] /\ ~threads'[t].removed =>
                  /\ bomb_data' = bomb_data
                  /\ presence_updates' = presence_updates]_vars
    /\ [][\A c \in DOMAIN bomb_data :
              /\ bomb_data[c].timer_freezes = 1 => bomb_data'[c].timer_freezes = 1
              /\ bomb_data[c].drop_callback.some =>
                     bomb_data'[c].drop_callback = bomb_data[c].drop_callback]_vars

\* Every thread has called end_bomb and returned; two of them for the same
\* bomb, whose drop callback is that of the one that removed it.
C25_Witness ==
    /\ threads # <<>>
    /\ \A t \in DOMAIN threads : threads[t].pc = "done"
    /\ \E t, u \in DOMAIN threads :
           /\ t # u
           /\ threads[t].bomb = threads[u].bomb
           /\ threads[t].removed /\ ~threads[u].removed
           /\ bomb_data[threads[t].bomb].drop_callback = Some(t)
           /\ bomb_data[threads[t].bomb].timer_freezes = 1

\* Where the names of a specifier start: at its head and behind each operator.
NameStarts(input) ==
    {i \in 1..(Len(input) + 1) : i = 1 \/ input[i - 1] \in Operators}

\* The name that starts at i: the pieces up to the next operator or the end.
NameAt(input, i) ==
    LET stops == {j \in i..(Len(input) + 1) :
                     j = Len(input) + 1 \/ input[j] \in Operators}
        stop == CHOOSE j \in stops : \A k \in stops : j <= k
    IN  SubSeq(input, i, stop - 1)

\* The name that starts at i stands behind a '-'.
Removed(input, i) == i > 1 /\ input[i - 1] = "-"

\* The specifier starts or ends with an operator, has two operators side by
\* side or nothing at all, or has a name that is no module or group.
Malformed(input) ==
    \E i \in NameStarts(input) :
        NameAt(input, i) = <<>> \/ ~MODULE_GROUPS_get(NameAt(input, i)).some

\* The modules of a well-formed specifier, read left to right from the
\* empty set: those that the last name holding them adds.
ModulesOf(input) ==
    {m \in UNION Range(MODULE_GROUPS) :
        \E i \in NameStarts(input) :
            /\ m \in MODULE_GROUPS_get(NameAt(input, i)).value
            /\ ~Removed(input, i)
            /\ \A j \in NameStarts(input) :
                   j > i /\ m \in MODULE_GROUPS_get(NameAt(input, j)).value
                       => ~Removed(input, j)}

\* C26: parse_group applies the names between '+' and '-' left to right
\* from the empty set, a name behind '-' removing its group's modules and
\* any other adding them: 'wires-wires+wires' is {wires} and
\* 'wires+wires-wires' is empty; a specifier that starts or ends with an
\* operator, has two operators with no name between them or names an unknown
\* module or group is an error, with no module set.
C26_ParseGroup ==
    pc = "returned" /\ call.op = "parse_group" =>
        /\ ret.value.ok <=> ~Malformed(call.input)
        /\ ret.value.ok => ret.value.value = ModulesOf(call.input)
        /\ ~ret.value.ok => ret.value.value[1] \in {"Syntax error", "No such module"}
        /\ call.input # <<>> /\ call.input[1] \in Operators =>
               ret.value = Err("Syntax error", <<"starts with an operator">>)
        /\ call.input = <<"wires", "-", "wires", "+", "wires">> =>
               ret.value = Ok({"wires"})
        /\ call.input = <<"wires", "+", "wires", "-", "wires">> =>
               ret.value = Ok({})

\* 'wires-wires+wires' was parsed: the module removed is there again.
C26_Witness ==
    /\ pc = "returned"
    /\ call.op = "parse_group"
    /\ call.input = <<"wires", "-", "wires", "+", "wires">>
    /\ ret.value = Ok({"wires"})

\* The rule holds of the bomb facts and the wires: all its queries do.
Holds(rule, edgework, wires) ==
    \A i \in DOMAIN rule.queries : Query_evaluate(rule.queries[i], edgework, wires)

\* The non-empty wire sequences of up to MAX_WIRES wires, up to the colours
\* the rule does not name.
AnyWiresNaming(rule) == UNION {WiresNaming(rule, n) : n \in 1..MAX_WIRES}

\* C27: every rule generate_rule returns for wire count w and is_valid
\* accepts, so every rule of a generated RuleList, holds of some sequence of
\* w wires and some bomb facts; and a rule of two WireQueries that is_valid
\* rejects, generated or not, holds of no wire sequence.
C27_Satisfiable ==
    /\ Generated /\ is_valid(ret.value.rule) =>
           \E wires \in WiresNaming(ret.value.rule, call.wire_count) :
               \E edgework \in BombFacts :
                   /\ Holds(ret.value.rule, edgework, wires)
                   /\ Rule_evaluate(ret.value.rule, edgework, wires)
    /\ Generated /\ ~is_valid(ret.value.rule) =>
           /\ \A i \in DOMAIN ret.value.rule.queries : ret.value.rule.queries[i].tag = "Wire"
           /\ \A wires \in AnyWiresNaming(ret.value.rule) : \A edgework \in BombFacts :
                  ~Rule_evaluate(ret.value.rule, edgework, wires)
    /\ pc = "call" /\ call.op = "generate_rule" =>
           \A first \in WireQueries : \A second \in WireQueries :
               LET rule == Rule(<<first, second>>, Index(0))
               IN  ~is_valid(rule) =>
                       \A wires \in AnyWiresNaming(rule) : \A edgework \in BombFacts :
                           ~Rule_evaluate(rule, edgework, wires)

\* For four wires a rule of a MoreThanOneOfColor and an ExactlyOneOfColor
\* query was generated: it holds of three of the four wires at least.
C27_Witness ==
    /\ Generated
    /\ is_valid(ret.value.rule)
    /\ call.wire_count = 4
    /\ QueriesOfKind(ret.value.rule, {"MoreThanOneOfColor"}) # {}
    /\ QueriesOfKind(ret.value.rule, {"ExactlyOneOfColor"}) # {}
    /\ \E wires \in WiresNaming(ret.value.rule, call.wire_count) :
           \E edgework \in BombFacts : Rule_evaluate(ret.value.rule, edgework, wires)

====
